---------------------------- MODULE Spec2Model ----------------------------
(***************************************************************************)
(* gfsbuddy (src/gfsbuddy.py): a registry of named date rules (TimeMap),   *)
(* the command line that enables them, the stdin reader and the run loop   *)
(* that prints the message of the first enabled rule matching each date.   *)
(*                                                                         *)
(* Text (rule names, messages, output lines) is a sequence of chunks: the  *)
(* characters "%", "-", "_", " " and every character that follows a "%"    *)
(* are chunks of their own, other runs of characters are one chunk.  The   *)
(* string 'Tape %J' is <<"Tape", " ", "%", "J">>.                          *)
(* A datetime is its proleptic Gregorian ordinal (date.toordinal()): the   *)
(* time of day is read by no rule of the catalogue.                        *)
(***************************************************************************)
EXTENDS Integers, Sequences, FiniteSets, TLC

VARIABLES
    Instances,  \* TimeMap.Instances: the list of rule objects
    nextId,     \* identity of the next object the interpreter allocates
    pc,         \* position of the script
    catIdx,     \* next catalogue line (108..121) to execute
    nExtra,     \* TimeMap(...) calls made after the catalogue
    registered, \* history: name, identity and enabled argument (False when
                \* omitted) of each rule constructed
    argv,       \* sys.argv[1:], each flag with its value
    args,       \* vars(args): the namespace parse_args() returned
    stdin,      \* what sys.stdin.readlines() returned
    lineNo,     \* lines of stdin the reader has consumed
    line,       \* the datetime the run loop is evaluating
    idx,        \* position of the inner loop in TimeMap.Instances
    out,        \* standard output: the lines printed, each with its input line
    calls,      \* the __call__s made for the current date
    exc,        \* the uncaught exception (or exit) that ended the script
    failed      \* the arguments of the TimeMap(...) call whose assert raised

vars == <<Instances, nextId, pc, catIdx, nExtra, registered, argv, args,
          stdin, lineNo, line, idx, out, calls, exc, failed>>

---------------------------------------------------------------------------
(* Sequences and text *)

Range(s) == {s[i] : i \in 1..Len(s)}

Min(S) == CHOOSE x \in S : \A y \in S : x <= y

RECURSIVE Join(_, _)
\* sep.join(words) for single-chunk words
Join(words, sep) ==
    IF Len(words) = 0 THEN <<>>
    ELSE IF Len(words) = 1 THEN <<words[1]>>
    ELSE <<words[1], sep>> \o Join(Tail(words), sep)

\* a hyphenated identifier such as 'last-day-of-week'
Hy(words) == Join(words, "-")

RECURSIVE Contains(_, _)
\* sub in s
Contains(s, sub) ==
    IF Len(s) < Len(sub) THEN FALSE
    ELSE IF SubSeq(s, 1, Len(sub)) = sub THEN TRUE
    ELSE Contains(Tail(s), sub)

RECURSIVE Replace(_, _, _)
\* s.replace(old, new): every non-overlapping occurrence, left to right
Replace(s, old, new) ==
    IF Len(s) < Len(old) THEN s
    ELSE IF SubSeq(s, 1, Len(old)) = old
         THEN new \o Replace(SubSeq(s, Len(old) + 1, Len(s)), old, new)
         ELSE <<s[1]>> \o Replace(Tail(s), old, new)

Digits == <<"0", "1", "2", "3", "4", "5", "6", "7", "8", "9">>

RECURSIVE Str(_)
\* str(n) of a natural number, one chunk per digit
Str(n) ==
    IF n < 10 THEN <<Digits[n + 1]>>
    ELSE Str(n \div 10) \o <<Digits[(n % 10) + 1]>>

---------------------------------------------------------------------------
(* datetime: ordinals, fields, timedelta arithmetic *)

\* date.min.toordinal() and date.max.toordinal()
MINORDINAL == 1
MAXORDINAL == 3652059

IsLeap(y) == y % 4 = 0 /\ (y % 100 # 0 \/ y % 400 = 0)

DaysBeforeYear(y) ==
    LET p == y - 1 IN p * 365 + (p \div 4) - (p \div 100) + (p \div 400)

DaysInMonth(y, m) ==
    IF m = 2 THEN (IF IsLeap(y) THEN 29 ELSE 28)
    ELSE IF m \in {4, 6, 9, 11} THEN 30 ELSE 31

\* days of a common year that precede each month
DAYS_BEFORE_MONTH == <<0, 31, 59, 90, 120, 151, 181, 212, 243, 273, 304, 334>>

DaysBeforeMonth(y, m) ==
    DAYS_BEFORE_MONTH[m] + (IF m > 2 /\ IsLeap(y) THEN 1 ELSE 0)

\* datetime(y, m, d).toordinal()
Ymd2Ord(y, m, d) == DaysBeforeYear(y) + DaysBeforeMonth(y, m) + d

\* the year of an ordinal, by the 400/100/4/1-year cycles
YearOf(o) ==
    LET n0   == o - 1
        n400 == n0 \div 146097
        r400 == n0 % 146097
        n100 == r400 \div 36524
        r100 == r400 % 36524
        n4   == r100 \div 1461
        r4   == r100 % 1461
        n1   == r4 \div 365
        y    == n400 * 400 + n100 * 100 + n4 * 4 + n1 + 1
    IN IF n1 = 4 \/ n100 = 4 THEN y - 1 ELSE y

\* the month of an ordinal: an estimate from the day of the year, one too
\* large when the day lies before that month's first
MonthOf(o) ==
    LET y == YearOf(o)
        n == o - DaysBeforeYear(y) - 1
        m == (n + 50) \div 32
    IN IF DaysBeforeMonth(y, m) > n THEN m - 1 ELSE m

\* t.year, t.month, t.day
Year(o) == YearOf(o)

Month(o) == MonthOf(o)

Day(o) ==
    LET y == YearOf(o) IN o - DaysBeforeYear(y) - DaysBeforeMonth(y, MonthOf(o))

\* mutant of Weekday: t.isoweekday(), Monday is 1, Sunday is 7
Weekday_iso(o) == ((o + 6) % 7) + 1

\* t.weekday(): Monday is 0, Sunday is 6
Weekday(o) == (o + 6) % 7

\* t + timedelta(days=n) is representable
InRange(o) == MINORDINAL <= o /\ o <= MAXORDINAL


\* the outcome of evaluating a check: a value, or the exception it raised
Ok(b) == [exc |-> "", val |-> b]
OverflowError == [exc |-> "OverflowError", val |-> FALSE]

\* a and b, where b reads u = t + timedelta(days=n): Python evaluates the sum
\* only when a is true, and the sum raises OverflowError when u lies outside
\* date.min..date.max
AndShifted(a, u, b) ==
    IF ~a THEN Ok(FALSE)
    ELSE IF ~InRange(u) THEN OverflowError
    ELSE Ok(b)

\* mutant of DatetimeEqInt: the month of the datetime is compared
\* ((t + timedelta(days=1)).month == 7)
DatetimeEqInt_month(t, n) == Month(t) = n

\* datetime.__eq__(int) is NotImplemented, so datetime == 7 is False
DatetimeEqInt(t, n) == FALSE

---------------------------------------------------------------------------
(* Messages and checks *)

\* a message (or a flag's value): a str, a callable, any other object, None
StrMsg(chunks) == [kind |-> "str", val |-> chunks]
FnMsg(tag)     == [kind |-> "callable", val |-> <<tag>>]
IntMsg(n)      == [kind |-> "other", val |-> Str(n)]
None           == [kind |-> "None", val |-> <<>>]

\* hasattr(check, '__call__'): the lambdas are callable, None is not
Callable(check) == check # "None"

\* the lambdas of lines 108-121, named after the rule each is written for
Check(check, t) ==
    CASE check = "last-workday-of-financial-year" ->
            AndShifted(Weekday(t) = 4 /\ Month(t) = 6, t + 7,
                       Month(t + 7) = 7)
      [] check = "last-workday-of-year" ->
            AndShifted(Weekday(t) = 4, t + 7,
                       Year(t) # Year(t + 7))
      [] check = "last-workday-of-month" ->
            AndShifted(Weekday(t) = 4, t + 7,
                       Month(t) # Month(t + 7))
      [] check = "last-workday-of-week" -> Ok(Weekday(t) = 4)
      [] check = "workday" -> Ok(Weekday(t) \in {0, 1, 2, 3, 4})
      [] check = "last-day-of-week" -> Ok(Weekday(t) = 5)
      [] check = "last-day-of-month" ->
            AndShifted(TRUE, t + 1,
                       Month(t) # Month(t + 1))
      [] check = "last-day-of-year" ->
            AndShifted(TRUE, t + 1,
                       Year(t) # Year(t + 1))
      [] check = "last-day-of-financial-year" ->
            AndShifted(Month(t) = 6, t + 1,
                       DatetimeEqInt(t + 1, 7))
      [] check = "first-day-of-week" -> Ok(Weekday(t) = 6)
      [] check = "first-day-of-month" -> Ok(Day(t) = 1)
      [] check = "first-day-of-year" -> Ok(Day(t) = 1 /\ Month(t) = 1)
      [] check = "first-day-of-financial-year" ->
            Ok(Day(t) = 1 /\ Month(t) = 7)
      [] check = "day" -> Ok(TRUE)

\* the module-level TimeMap(...) lines, in order
Catalogue == <<
    [name |-> Hy(<<"last", "workday", "of", "financial", "year">>),
     message |-> StrMsg(<<"End of Financial Year">>),
     check |-> "last-workday-of-financial-year"],
    [name |-> Hy(<<"last", "workday", "of", "year">>),
     message |-> StrMsg(<<"End of Year">>),
     check |-> "last-workday-of-year"],
    [name |-> Hy(<<"last", "workday", "of", "month">>),
     message |-> StrMsg(<<"End of Month">>),
     check |-> "last-workday-of-month"],
    [name |-> Hy(<<"last", "workday", "of", "week">>),
     message |-> StrMsg(<<"%", "A", " ", "%", "J">>),
     check |-> "last-workday-of-week"],
    [name |-> <<"workday">>,
     message |-> StrMsg(<<"%", "A">>),
     check |-> "workday"],
    [name |-> Hy(<<"last", "day", "of", "week">>),
     message |-> StrMsg(<<"Last Day of Week">>),
     check |-> "last-day-of-week"],
    [name |-> Hy(<<"last", "day", "of", "month">>),
     message |-> StrMsg(<<"Last Day of Month">>),
     check |-> "last-day-of-month"],
    [name |-> Hy(<<"last", "day", "of", "year">>),
     message |-> StrMsg(<<"Last Day of Year">>),
     check |-> "last-day-of-year"],
    [name |-> Hy(<<"last", "day", "of", "financial", "year">>),
     message |-> StrMsg(<<"Last Day of Financial Year">>),
     check |-> "last-day-of-financial-year"],
    [name |-> Hy(<<"first", "day", "of", "week">>),
     message |-> StrMsg(<<"First Day of Week">>),
     check |-> "first-day-of-week"],
    [name |-> Hy(<<"first", "day", "of", "month">>),
     message |-> StrMsg(<<"First Day of Month">>),
     check |-> "first-day-of-month"],
    [name |-> Hy(<<"first", "day", "of", "year">>),
     message |-> StrMsg(<<"First Day of Year">>),
     check |-> "first-day-of-year"],
    [name |-> Hy(<<"first", "day", "of", "financial", "year">>),
     message |-> StrMsg(<<"First Day of Financial Year">>),
     check |-> "first-day-of-financial-year"],
    [name |-> <<"day">>,
     message |-> StrMsg(<<"%", "A">>),
     check |-> "day"] >>

\* mutant of Legacy: the line enabling workday is missing
Legacy_without_workday == <<
    Hy(<<"last", "workday", "of", "financial", "year">>),
    Hy(<<"last", "workday", "of", "year">>),
    Hy(<<"last", "workday", "of", "month">>),
    Hy(<<"last", "workday", "of", "week">>) >>

\* the names the legacy block of __main__ enables
Legacy == <<
    Hy(<<"last", "workday", "of", "financial", "year">>),
    Hy(<<"last", "workday", "of", "year">>),
    Hy(<<"last", "workday", "of", "month">>),
    Hy(<<"last", "workday", "of", "week">>),
    <<"workday">> >>

---------------------------------------------------------------------------
(* class TimeMap *)

\* mutant of NewRule: self.enabled = True, whatever the argument
NewRule_on(id, name, message, check, enabled) ==
    [id |-> id, name |-> name, message |-> message, check |-> check,
     enabled |-> TRUE]

\* the object __init__ fills in: lines 69-72
NewRule(id, name, message, check, enabled) ==
    [id |-> id, name |-> name, message |-> message, check |-> check,
     enabled |-> enabled]

\* Instances.index(obj): objects compare by identity; 0 stands for ValueError
IndexOf(insts, obj) ==
    LET hits == {i \in 1..Len(insts) : insts[i].id = obj.id}
    IN IF hits = {} THEN 0 ELSE Min(hits)

\* mutant of TimeMap_del: index() finds the entry that equals the object by
\* name (an __eq__ on names)
TimeMap_del_by_name(insts, obj) ==
    LET hits == {i \in 1..Len(insts) : insts[i].name = obj.name}
        i    == IF hits = {} THEN 0 ELSE Min(hits)
    IN IF i = 0 THEN insts
       ELSE SubSeq(insts, 1, i - 1) \o SubSeq(insts, i + 1, Len(insts))

\* __del__: pop the object's own index; the ValueError of an object that is
\* not in the list is raised inside a destructor, which the interpreter
\* reports and ignores
TimeMap_del(insts, obj) ==
    LET i == IndexOf(insts, obj)
    IN IF i = 0 THEN insts
       ELSE SubSeq(insts, 1, i - 1) \o SubSeq(insts, i + 1, Len(insts))

\* mutant of SlotOf: the comparison never succeeds (inst == name)
SlotOf_never(insts, name) == 0

\* the for/else of lines 73-78: the index a rule of that name holds, or 0
SlotOf(insts, name) ==
    LET hits == {i \in 1..Len(insts) : insts[i].name = name}
    IN IF hits = {} THEN 0 ELSE Min(hits)

\* mutant of TimeMap_init: the for/else appends whether or not the name is
\* already held
TimeMap_init_append(insts, self) == Append(insts, self)

\* TimeMap(name, message, check, enabled) with a callable check: the list
\* after __init__ and after the destructor of the object it displaced, which
\* nothing references once __init__ returns
TimeMap_init(insts, self) ==
    LET i == SlotOf(insts, self.name)
    IN IF i = 0 THEN Append(insts, self)
       ELSE TimeMap_del([insts EXCEPT ![i] = self], insts[i])

\* by_name: the index of the first rule of that name, 0 for None
by_name(insts, name) == SlotOf(insts, name)

---------------------------------------------------------------------------
(* The message formatter: lines 87-93 *)

DayNames == <<"Monday", "Tuesday", "Wednesday", "Thursday", "Friday",
              "Saturday", "Sunday">>

MonthNames == <<"January", "February", "March", "April", "May", "June",
                "July", "August", "September", "October", "November",
                "December">>

\* one strftime conversion; the C library copies a conversion it does not
\* know to the output as it stands
Conversion(val, c) ==
    CASE c = "A" -> <<DayNames[Weekday(val) + 1]>>
      [] c = "B" -> <<MonthNames[Month(val)]>>
      [] c = "%" -> <<"%">>
      [] OTHER   -> <<"%", c>>

RECURSIVE strftime(_, _)
\* val.strftime(fmt)
strftime(val, fmt) ==
    IF Len(fmt) = 0 THEN <<>>
    ELSE IF fmt[1] = "%" /\ Len(fmt) >= 2
         THEN Conversion(val, fmt[2]) \o strftime(val, SubSeq(fmt, 3, Len(fmt)))
         ELSE <<fmt[1]>> \o strftime(val, Tail(fmt))

\* mutant of WeekOffsets: range(0,4)
WeekOffsets_short == 0..3

\* range(0,5)
WeekOffsets == 0..4

\* val - timedelta(weeks=x) raises OverflowError for some x of the range
WeekCountRaises(val) == \E x \in WeekOffsets : ~InRange(val - 7 * x)

\* len([x for x in range(0,5) if val.month == (val - timedelta(weeks=x)).month])
WeekCount(val) ==
    Cardinality({x \in WeekOffsets : Month(val) = Month(val - 7 * x)})

\* the callables used as messages: each returns a fixed text
CallMessage(tag, val) ==
    CASE tag = "template" -> <<"%", "A", " ", "%", "J">>
      [] OTHER -> <<tag>>

\* mutant of Render: what a callable message returns is formatted like a
\* string message (print(val.strftime(self.message(val))))
Render_format_all(message, val) ==
    IF message.kind = "callable"
    THEN [exc |-> "", text |-> strftime(val, CallMessage(message.val[1], val))]
    ELSE IF message.kind = "str"
    THEN IF Contains(message.val, <<"%", "J">>)
         THEN IF WeekCountRaises(val)
              THEN [exc |-> "OverflowError", text |-> <<>>]
              ELSE [exc |-> "",
                    text |-> strftime(val, Replace(message.val, <<"%", "J">>,
                                                   Str(WeekCount(val))))]
         ELSE [exc |-> "", text |-> strftime(val, message.val)]
    ELSE [exc |-> "", text |-> message.val]

\* the text print() is given for a matched rule, or the exception raised
Render(message, val) ==
    IF message.kind = "callable"
    THEN [exc |-> "", text |-> CallMessage(message.val[1], val)]
    ELSE IF message.kind = "str"
    THEN IF Contains(message.val, <<"%", "J">>)
         THEN IF WeekCountRaises(val)
              THEN [exc |-> "OverflowError", text |-> <<>>]
              ELSE [exc |-> "",
                    text |-> strftime(val, Replace(message.val, <<"%", "J">>,
                                                   Str(WeekCount(val))))]
         ELSE [exc |-> "", text |-> strftime(val, message.val)]
    ELSE [exc |-> "", text |-> message.val]

\* mutant of TimeMap_call: the check is evaluated before enabled is tested
TimeMap_call_eager(self, val) ==
    LET c == Check(self.check, val) IN
    IF c.exc # ""
    THEN [exc |-> c.exc, ret |-> FALSE, printed |-> <<>>, checked |-> TRUE]
    ELSE IF c.val /\ self.enabled
    THEN [exc |-> "", ret |-> TRUE,
          printed |-> <<Render(self.message, val).text>>, checked |-> TRUE]
    ELSE [exc |-> "", ret |-> FALSE, printed |-> <<>>, checked |-> TRUE]

\* __call__(self, val): what it returns, the lines it prints, whether it
\* invoked self.check, and the exception that escaped it
TimeMap_call(self, val) ==
    IF ~self.enabled
    THEN [exc |-> "", ret |-> FALSE, printed |-> <<>>, checked |-> FALSE]
    ELSE LET c == Check(self.check, val) IN
         IF c.exc # ""
         THEN [exc |-> c.exc, ret |-> FALSE, printed |-> <<>>, checked |-> TRUE]
         ELSE IF c.val
         THEN LET m == Render(self.message, val) IN
              IF m.exc # ""
              THEN [exc |-> m.exc, ret |-> FALSE, printed |-> <<>>,
                    checked |-> TRUE]
              ELSE [exc |-> "", ret |-> TRUE, printed |-> <<m.text>>,
                    checked |-> TRUE]
         ELSE [exc |-> "", ret |-> FALSE, printed |-> <<>>, checked |-> TRUE]

---------------------------------------------------------------------------
(* __main__: legacy block, argument parsing *)

RECURSIVE EnableAll(_, _)
\* TimeMap.by_name(n).enabled = True for each n; by_name returning None
\* makes the assignment raise AttributeError
EnableAll(insts, names) ==
    IF Len(names) = 0 THEN [exc |-> "", insts |-> insts]
    ELSE LET i == by_name(insts, names[1]) IN
         IF i = 0 THEN [exc |-> "AttributeError", insts |-> insts]
         ELSE EnableAll([insts EXCEPT ![i].enabled = TRUE], Tail(names))

\* argparse derives an option's dest from its option string: the leading
\* '--' stripped and every '-' replaced by '_'
Dest(flag) == [i \in 1..Len(flag) |-> IF flag[i] = "-" THEN "_" ELSE flag[i]]

\* the option strings add_argument registers, without their '--'
Options(insts) == {insts[i].name : i \in 1..Len(insts)}

\* p is a prefix of s
IsPrefix(p, s) == Len(p) <= Len(s) /\ SubSeq(s, 1, Len(p)) = p

\* the options parse_args takes a flag for: the option of that very name,
\* or else every option the flag abbreviates (allow_abbrev)
Matches(insts, flag) ==
    IF flag \in Options(insts) THEN {flag}
    ELSE {o \in Options(insts) : IsPrefix(flag, o)}

\* parse_args rejects the flag: no option matches it, or more than one
Unrecognized(insts, flag) == Cardinality(Matches(insts, flag)) # 1

\* the command line with each flag replaced by the option it stands for
Resolved(insts, av) ==
    [k \in 1..Len(av) |->
        [flag  |-> CHOOSE o \in Matches(insts, av[k].flag) : TRUE,
         value |-> av[k].value]]

RECURSIVE Namespace(_, _)
\* parse_args with argument_default=SUPPRESS and nargs='?': one attribute
\* per flag given, named by its dest, holding the flag's value or None; a
\* repeated flag keeps its first position and its last value
Namespace(av, ns) ==
    IF Len(av) = 0 THEN ns
    ELSE LET key  == Dest(av[1].flag)
             hits == {i \in 1..Len(ns) : ns[i].key = key}
             item == [key |-> key, value |-> av[1].value]
         IN Namespace(Tail(av),
                      IF hits = {} THEN Append(ns, item)
                      ELSE [ns EXCEPT ![Min(hits)] = item])

RECURSIVE ApplyArgs(_, _)
\* lines 154-160: for key in vars(args)
ApplyArgs(insts, ns) ==
    IF Len(ns) = 0 THEN insts
    ELSE LET tm == by_name(insts, ns[1].key) IN
         IF tm = 0 THEN ApplyArgs(insts, Tail(ns))
         ELSE ApplyArgs(
                [insts EXCEPT ![tm].enabled = TRUE,
                              ![tm].message =
                                  IF ns[1].value # None THEN ns[1].value
                                  ELSE insts[tm].message],
                Tail(ns))

\* datetime.strptime(line, STDIN_FORMAT) with the default format: the month
\* name, the day and the year make the date, the weekday name is not used;
\* 0 stands for ValueError
strptime(l) ==
    IF l.kind # "date" THEN 0
    ELSE IF l.Y \notin 1..9999 \/ l.b \notin 1..12 THEN 0
    ELSE IF l.d \notin 1..DaysInMonth(l.Y, l.b) THEN 0
    ELSE Ymd2Ord(l.Y, l.b, l.d)

DateLine(y, m, d) == [kind |-> "date", Y |-> y, b |-> m, d |-> d]
Garbage == [kind |-> "garbage", Y |-> 0, b |-> 0, d |-> 0]

---------------------------------------------------------------------------
(* The script, top to bottom *)

Init ==
    /\ Instances = <<>>
    /\ nextId = 1
    /\ pc = "import"
    /\ catIdx = 1
    /\ nExtra = 0
    /\ registered = <<>>
    /\ argv = <<>>
    /\ args = <<>>
    /\ stdin = <<>>
    /\ lineNo = 0
    /\ line = 0
    /\ idx = 0
    /\ out = <<>>
    /\ calls = <<>>
    /\ exc = ""
    /\ failed = <<>>

\* mutant of RegisterCatalogue: the catalogue lines in the opposite order
RegisterCatalogue_reversed ==
    /\ pc = "import"
    /\ catIdx <= Len(Catalogue)
    /\ LET c == Catalogue[Len(Catalogue) + 1 - catIdx] IN
       /\ Instances' = TimeMap_init(Instances,
                           NewRule(nextId, c.name, c.message, c.check, FALSE))
       /\ registered' = Append(registered, [name |-> c.name, id |-> nextId,
                                             enabled |-> FALSE])
    /\ nextId' = nextId + 1
    /\ catIdx' = catIdx + 1
    /\ UNCHANGED <<pc, nExtra, argv, args, stdin, lineNo, line, idx, out, calls,
                   exc>>
    /\ UNCHANGED failed

\* one of the lines 108-121
RegisterCatalogue ==
    /\ pc = "import"
    /\ catIdx <= Len(Catalogue)
    /\ LET c == Catalogue[catIdx] IN
       Instances' = TimeMap_init(Instances,
                        NewRule(nextId, c.name, c.message, c.check, FALSE))
    /\ registered' = Append(registered, [name |-> Catalogue[catIdx].name,
                                          id |-> nextId, enabled |-> FALSE])
    /\ nextId' = nextId + 1
    /\ catIdx' = catIdx + 1
    /\ UNCHANGED <<pc, nExtra, argv, args, stdin, lineNo, line, idx, out, calls,
                   exc>>
    /\ UNCHANGED failed

\* mutant of Register: the assert of line 68 comes after the for/else
Register_late_assert(max, regs) ==
    /\ pc = "import"
    /\ catIdx > Len(Catalogue)
    /\ nExtra < max
    /\ \E r \in regs :
         LET self == NewRule(nextId, r.name, r.message, r.check, r.enabled) IN
         IF Callable(r.check)
         THEN /\ Instances' = TimeMap_init(Instances, self)
              /\ registered' = Append(registered,
                                      [name |-> r.name, id |-> nextId,
                                       enabled |-> r.enabled])
              /\ UNCHANGED <<pc, exc, failed>>
         ELSE /\ Instances' = TimeMap_del(TimeMap_init(Instances, self), self)
              /\ pc' = "error"
              /\ exc' = "AssertionError"
              /\ failed' = <<r>>
              /\ UNCHANGED registered
    /\ nextId' = nextId + 1
    /\ nExtra' = nExtra + 1
    /\ UNCHANGED <<catIdx, argv, args, stdin, lineNo, line, idx, out, calls>>

\* a TimeMap(name, message, check, enabled) line added below the catalogue
\* (the script "can easily be modified"): the assert of line 68 ends the
\* script, and the object it leaves behind is destroyed
Register(max, regs) ==
    /\ pc = "import"
    /\ catIdx > Len(Catalogue)
    /\ nExtra < max
    /\ \E r \in regs :
         LET self == NewRule(nextId, r.name, r.message, r.check, r.enabled) IN
         IF Callable(r.check)
         THEN /\ Instances' = TimeMap_init(Instances, self)
              /\ registered' = Append(registered,
                                      [name |-> r.name, id |-> nextId,
                                       enabled |-> r.enabled])
              /\ UNCHANGED <<pc, exc, failed>>
         ELSE /\ Instances' = TimeMap_del(Instances, self)
              /\ pc' = "error"
              /\ exc' = "AssertionError"
              /\ failed' = <<r>>
              /\ UNCHANGED registered
    /\ nextId' = nextId + 1
    /\ nExtra' = nExtra + 1
    /\ UNCHANGED <<catIdx, argv, args, stdin, lineNo, line, idx, out, calls>>

\* lines 136-140
StartMain ==
    /\ pc = "import"
    /\ catIdx > Len(Catalogue)
    /\ LET r == EnableAll(Instances, Legacy) IN
       /\ Instances' = r.insts
       /\ pc' = IF r.exc = "" THEN "args" ELSE "error"
       /\ exc' = r.exc
    /\ UNCHANGED <<nextId, catIdx, nExtra, registered, argv, args, stdin, lineNo,
                   line, idx, out, calls>>
    /\ UNCHANGED failed

\* mutant of ParseArgs: parse_known_args, which leaves the flags it does
\* not recognize aside and returns
ParseArgs_known(argvs) ==
    /\ pc = "args"
    /\ \E a \in argvs : argv' = a
    /\ LET known == SelectSeq(argv',
                       LAMBDA f : ~Unrecognized(Instances, f.flag)) IN
       /\ args' = Namespace(Resolved(Instances, known), <<>>)
       /\ Instances' = ApplyArgs(Instances, args')
    /\ pc' = "run"
    /\ UNCHANGED exc
    /\ UNCHANGED <<nextId, catIdx, nExtra, registered, stdin, lineNo, line, idx,
                   out, calls>>
    /\ UNCHANGED failed

\* lines 143-160: a flag that parse_args does not recognize makes it print
\* the usage and exit with status 2
ParseArgs(argvs) ==
    /\ pc = "args"
    /\ \E a \in argvs : argv' = a
    /\ IF \E k \in 1..Len(argv') : Unrecognized(Instances, argv'[k].flag)
       THEN /\ pc' = "error"
            /\ exc' = "SystemExit"
            /\ UNCHANGED <<Instances, args>>
       ELSE /\ args' = Namespace(Resolved(Instances, argv'), <<>>)
            /\ Instances' = ApplyArgs(Instances, args')
            /\ pc' = "run"
            /\ UNCHANGED exc
    /\ UNCHANGED <<nextId, catIdx, nExtra, registered, stdin, lineNo, line, idx,
                   out, calls>>
    /\ UNCHANGED failed

\* reader(), piped: sys.stdin.readlines() (line 128)
Readlines(inputs) ==
    /\ pc = "run"
    /\ \E input \in inputs : stdin' = input
    /\ lineNo' = 0
    /\ pc' = "next"
    /\ UNCHANGED <<Instances, nextId, catIdx, nExtra, registered, argv, args,
                   line, idx, out, calls, exc>>
    /\ UNCHANGED failed

\* the loop header of line 164 for a date the reader yielded
StartWalk ==
    /\ idx' = 1
    /\ calls' = <<>>
    /\ pc' = IF Len(Instances) = 0 THEN "next" ELSE "walk"

\* reader(), on a terminal: yield datetime.now() (line 132), once
Now(dates) ==
    /\ pc = "run"
    /\ \E now \in dates : line' = now
    /\ stdin' = <<>>
    /\ lineNo' = 1
    /\ StartWalk
    /\ UNCHANGED <<Instances, nextId, catIdx, nExtra, registered, argv, args,
                   out, exc>>
    /\ UNCHANGED failed

\* mutant of ReaderNext: every line is parsed before the first is yielded
\* (a list built from the lines instead of a generator)
ReaderNext_eager ==
    /\ pc = "next"
    /\ IF \E k \in (lineNo + 1)..Len(stdin) : strptime(stdin[k]) = 0
       THEN /\ pc' = "error"
            /\ exc' = "ValueError"
            /\ UNCHANGED <<lineNo, line, idx, calls>>
       ELSE IF lineNo < Len(stdin)
       THEN /\ line' = strptime(stdin[lineNo + 1])
            /\ lineNo' = lineNo + 1
            /\ StartWalk
            /\ UNCHANGED exc
       ELSE /\ pc' = "done"
            /\ UNCHANGED <<lineNo, line, idx, calls, exc>>
    /\ UNCHANGED <<Instances, nextId, catIdx, nExtra, registered, argv, args,
                   stdin, out>>
    /\ UNCHANGED failed

\* line 163 resuming the reader: the next line parsed (line 129), the
\* ValueError of a line that does not parse, or the end of the input
ReaderNext ==
    /\ pc = "next"
    /\ IF lineNo < Len(stdin)
       THEN LET t == strptime(stdin[lineNo + 1]) IN
            IF t = 0
            THEN /\ pc' = "error"
                 /\ exc' = "ValueError"
                 /\ UNCHANGED <<lineNo, line, idx, calls>>
            ELSE /\ line' = t
                 /\ lineNo' = lineNo + 1
                 /\ StartWalk
                 /\ UNCHANGED exc
       ELSE /\ pc' = "done"
            /\ UNCHANGED <<lineNo, line, idx, calls, exc>>
    /\ UNCHANGED <<Instances, nextId, catIdx, nExtra, registered, argv, args,
                   stdin, out>>
    /\ UNCHANGED failed

\* mutant of Call: a walk that reaches the end of the list without a match
\* ends the run
Call_stop ==
    /\ pc = "walk"
    /\ LET r == TimeMap_call(Instances[idx], line) IN
       /\ calls' = Append(calls, [idx |-> idx, checked |-> r.checked,
                                  printed |-> Len(r.printed), ret |-> r.ret])
       /\ out' = out \o [k \in 1..Len(r.printed) |->
                            [src |-> lineNo, text |-> r.printed[k]]]
       /\ exc' = r.exc
       /\ IF r.exc # "" THEN pc' = "error" /\ idx' = idx
          ELSE IF r.ret THEN pc' = "next" /\ idx' = idx
          ELSE IF idx < Len(Instances) THEN pc' = "walk" /\ idx' = idx + 1
          ELSE pc' = "done" /\ idx' = idx
    /\ UNCHANGED <<Instances, nextId, catIdx, nExtra, registered, argv, args,
                   stdin, lineNo, line>>
    /\ UNCHANGED failed

\* mutant of Call: the break of line 166 is missing
Call_nobreak ==
    /\ pc = "walk"
    /\ LET r == TimeMap_call(Instances[idx], line) IN
       /\ calls' = Append(calls, [idx |-> idx, checked |-> r.checked,
                                  printed |-> Len(r.printed), ret |-> r.ret])
       /\ out' = out \o [k \in 1..Len(r.printed) |->
                            [src |-> lineNo, text |-> r.printed[k]]]
       /\ exc' = r.exc
       /\ IF r.exc # "" THEN pc' = "error" /\ idx' = idx
          ELSE IF idx < Len(Instances) THEN pc' = "walk" /\ idx' = idx + 1
          ELSE pc' = "next" /\ idx' = idx
    /\ UNCHANGED <<Instances, nextId, catIdx, nExtra, registered, argv, args,
                   stdin, lineNo, line>>
    /\ UNCHANGED failed

\* mutant of Call: a rule that matched is switched off (one shot)
Call_one_shot ==
    /\ pc = "walk"
    /\ LET r == TimeMap_call(Instances[idx], line) IN
       /\ calls' = Append(calls, [idx |-> idx, checked |-> r.checked,
                                  printed |-> Len(r.printed), ret |-> r.ret])
       /\ out' = out \o [k \in 1..Len(r.printed) |->
                            [src |-> lineNo, text |-> r.printed[k]]]
       /\ exc' = r.exc
       /\ Instances' = IF r.ret THEN [Instances EXCEPT ![idx].enabled = FALSE]
                       ELSE Instances
       /\ IF r.exc # "" THEN pc' = "error" /\ idx' = idx
          ELSE IF r.ret THEN pc' = "next" /\ idx' = idx
          ELSE IF idx < Len(Instances) THEN pc' = "walk" /\ idx' = idx + 1
          ELSE pc' = "next" /\ idx' = idx
    /\ UNCHANGED <<nextId, catIdx, nExtra, registered, argv, args,
                   stdin, lineNo, line>>
    /\ UNCHANGED failed

\* lines 165-166: if instance(line): break
Call ==
    /\ pc = "walk"
    /\ LET r == TimeMap_call(Instances[idx], line) IN
       /\ calls' = Append(calls, [idx |-> idx, checked |-> r.checked,
                                  printed |-> Len(r.printed), ret |-> r.ret])
       /\ out' = out \o [k \in 1..Len(r.printed) |->
                            [src |-> lineNo, text |-> r.printed[k]]]
       /\ exc' = r.exc
       /\ IF r.exc # "" THEN pc' = "error" /\ idx' = idx
          ELSE IF r.ret THEN pc' = "next" /\ idx' = idx
          ELSE IF idx < Len(Instances) THEN pc' = "walk" /\ idx' = idx + 1
          ELSE pc' = "next" /\ idx' = idx
    /\ UNCHANGED <<Instances, nextId, catIdx, nExtra, registered, argv, args,
                   stdin, lineNo, line>>
    /\ UNCHANGED failed

---------------------------------------------------------------------------
(* Inputs *)

\* every sequence over S of length at most n
SeqsUpTo(S, n) == UNION {[1..k -> S] : k \in 0..n}

\* the command line: at most MaxFlags flags
MaxFlags == 1

Flag(name, value) == [flag |-> name, value |-> value]

\* two working flags, a hyphenated one, an abbreviation of one option, an
\* abbreviation of several, and a flag of no option
FlagNames == {<<"workday">>, <<"day">>, Hy(<<"last", "day", "of", "week">>),
              Hy(<<"last", "workday", "of", "financial">>),
              Hy(<<"last", "day">>), <<"bogus">>}
FlagValues == {None, StrMsg(<<"Tape", " ", "%", "J">>)}

Argvs ==
    SeqsUpTo({Flag(n, v) : n \in FlagNames, v \in FlagValues}, MaxFlags)

\* standard input: at most MaxLines lines
MaxLines == 2

Lines == {DateLine(2023, 6, 30), DateLine(2023, 3, 15), DateLine(2023, 3, 18),
          DateLine(9999, 12, 31), DateLine(1, 1, 5), DateLine(2023, 2, 30),
          Garbage}

Inputs == SeqsUpTo(Lines, MaxLines)

Today == {Ymd2Ord(2023, 6, 30), Ymd2Ord(2023, 3, 18)}

\* the script as it stands
Next ==
    \/ RegisterCatalogue
    \/ StartMain
    \/ ParseArgs(Argvs)
    \/ Readlines(Inputs)
    \/ Now(Today)
    \/ ReaderNext
    \/ Call

Spec == Init /\ [][Next]_vars

---------------------------------------------------------------------------
(* The script with TimeMap(...) lines added below the catalogue, run on a
   terminal without flags or with --day *)

MaxExtra == 2

LibRegs ==
    [name    : {<<"workday">>, Hy(<<"last", "workday", "of", "year">>),
                <<"tape">>},
     message : {StrMsg(<<"Tape", " ", "%", "J">>), IntMsg(7)},
     check   : {"day", "last-day-of-month", "None"},
     enabled : BOOLEAN]

LibDates == {Ymd2Ord(2023, 6, 30), Ymd2Ord(2023, 3, 15), Ymd2Ord(2023, 3, 18),
             Ymd2Ord(9999, 12, 31), Ymd2Ord(1, 1, 5)}

LibArgvs == {<<>>, <<Flag(<<"day">>, None)>>}

NextLib ==
    \/ RegisterCatalogue
    \/ Register(MaxExtra, LibRegs)
    \/ StartMain
    \/ ParseArgs(LibArgvs)
    \/ Now(LibDates)
    \/ ReaderNext
    \/ Call

SpecLib == Init /\ [][NextLib]_vars

---------------------------------------------------------------------------
(* The script run on a terminal with any of its flags *)

CatalogueNames == {Catalogue[i].name : i \in 1..Len(Catalogue)}

AllArgvs ==
    SeqsUpTo({Flag(n, v) : n \in CatalogueNames \cup {<<"bogus">>},
                           v \in FlagValues}, MaxFlags)

NextArgs ==
    \/ RegisterCatalogue
    \/ StartMain
    \/ ParseArgs(AllArgvs)
    \/ Now(Today)
    \/ ReaderNext
    \/ Call

SpecArgs == Init /\ [][NextArgs]_vars

---------------------------------------------------------------------------
(* The script without flags, fed one line: every day of the years
   FirstYear..LastYear and of the first and the last year of datetime, and
   the lines that name no day of the calendar (Feb 30) *)

MINYEAR == 1
MAXYEAR == 9999
FirstYear == 2000
LastYear == 2027

Years == (FirstYear..LastYear) \cup {MINYEAR, MAXYEAR}

CalendarLines == {DateLine(y, m, d) : y \in Years, m \in 1..12, d \in 1..31}

NextLegacy ==
    \/ RegisterCatalogue
    \/ StartMain
    \/ ParseArgs({<<>>})
    \/ Readlines({<<l>> : l \in CalendarLines})
    \/ ReaderNext
    \/ Call

SpecLegacy == Init /\ [][NextLegacy]_vars

---------------------------------------------------------------------------
(* TimeMap.__call__ on its own: one enabled rule that matches every date,
   with each kind of message, called on each day of the calendar above *)

RenderMsgs ==
    {StrMsg(<<"%", "J">>), StrMsg(<<"%", "A", " ", "%", "J">>),
     StrMsg(<<"%", "J", "%", "J">>),
     StrMsg(<<"Tape", " ", "%", "J", " ", "%", "B">>),
     StrMsg(<<"%", "A">>), FnMsg("template"), IntMsg(7)}

CalendarDates == {strptime(l) : l \in CalendarLines} \ {0}

InitRender ==
    /\ \E m \in RenderMsgs :
         Instances = <<NewRule(1, <<"tape">>, m, "day", TRUE)>>
    /\ registered = << [name |-> <<"tape">>, id |-> 1, enabled |-> TRUE] >>
    /\ nextId = 2
    /\ pc = "walk"
    /\ catIdx = 1
    /\ nExtra = 0
    /\ argv = <<>>
    /\ args = <<>>
    /\ stdin = <<>>
    /\ lineNo = 1
    /\ line \in CalendarDates
    /\ idx = 1
    /\ out = <<>>
    /\ calls = <<>>
    /\ exc = ""
    /\ failed = <<>>

NextRender ==
    \/ Call
    \/ ReaderNext

SpecRender == InitRender /\ [][NextRender]_vars

---------------------------------------------------------------------------
(* One catalogue predicate on its own: a single enabled rule holding that
   predicate, called on each day of the calendar above *)

CatalogueChecks == {Catalogue[i].check : i \in 1..Len(Catalogue)}

InitCheck ==
    /\ \E c \in CatalogueChecks :
         Instances = <<NewRule(1, <<"tape">>, StrMsg(<<"%", "A">>), c, TRUE)>>
    /\ registered = << [name |-> <<"tape">>, id |-> 1, enabled |-> TRUE] >>
    /\ nextId = 2
    /\ pc = "walk"
    /\ catIdx = 1
    /\ nExtra = 0
    /\ argv = <<>>
    /\ args = <<>>
    /\ stdin = <<>>
    /\ lineNo = 1
    /\ line \in CalendarDates
    /\ idx = 1
    /\ out = <<>>
    /\ calls = <<>>
    /\ exc = ""
    /\ failed = <<>>

NextCheck ==
    \/ Call
    \/ ReaderNext

SpecCheck == InitCheck /\ [][NextCheck]_vars

---------------------------------------------------------------------------
(* The run loop over the catalogue with a chosen set of rules enabled (by
   enabled=True on their lines, or by the legacy block): the legacy rules
   on or off, every subset of the five day-of-month and day-of-year rules,
   and the first, the fifteenth and the last day of every month of the
   calendar above *)

\* mutant of Registry: the catalogue lines in the opposite order
Registry_reversed(names) ==
    [i \in 1..Len(Catalogue) |->
        LET c == Catalogue[Len(Catalogue) + 1 - i] IN
        NewRule(i, c.name, c.message, c.check, c.name \in names)]

\* the catalogue as registered, with the rules of the given names enabled
Registry(names) ==
    [i \in 1..Len(Catalogue) |->
        NewRule(i, Catalogue[i].name, Catalogue[i].message, Catalogue[i].check,
                Catalogue[i].name \in names)]

LDOM  == Hy(<<"last", "day", "of", "month">>)
LDOY  == Hy(<<"last", "day", "of", "year">>)
FDOM  == Hy(<<"first", "day", "of", "month">>)
FDOY  == Hy(<<"first", "day", "of", "year">>)
FDOFY == Hy(<<"first", "day", "of", "financial", "year">>)

DayBased == {LDOM, LDOY, FDOM, FDOY, FDOFY}

EnabledSets == {L \cup D : L \in {{}, Range(Legacy)}, D \in SUBSET DayBased}

ShadowDates ==
    {t \in CalendarDates : Day(t) = 1 \/ Day(t) = 15 \/ Day(t + 1) = 1}

InitShadow ==
    /\ \E E \in EnabledSets : Instances = Registry(E)
    /\ registered = [i \in 1..Len(Catalogue) |->
                        [name |-> Catalogue[i].name, id |-> i,
                         enabled |-> Instances[i].enabled]]
    /\ nextId = Len(Catalogue) + 1
    /\ pc = "walk"
    /\ catIdx = Len(Catalogue) + 1
    /\ nExtra = 0
    /\ argv = <<>>
    /\ args = <<>>
    /\ stdin = <<>>
    /\ lineNo = 1
    /\ line \in ShadowDates
    /\ idx = 1
    /\ out = <<>>
    /\ calls = <<>>
    /\ exc = ""
    /\ failed = <<>>

NextShadow ==
    \/ Call
    \/ ReaderNext

SpecShadow == InitShadow /\ [][NextShadow]_vars

---------------------------------------------------------------------------
(* Properties *)

Max(S) == CHOOSE x \in S : \A y \in S : y <= x

\* the first rule, in registry order, that is enabled and whose predicate is
\* true of t; 0 when there is none
FirstMatch(insts, t) ==
    LET hits == {i \in 1..Len(insts) :
                    insts[i].enabled /\ Check(insts[i].check, t) = Ok(TRUE)}
    IN IF hits = {} THEN 0 ELSE Min(hits)

\* the texts printed for input line n
OutFor(n) ==
    LET sel == SelectSeq(out, LAMBDA o : o.src = n)
    IN [k \in 1..Len(sel) |-> sel[k].text]

\* a date has been handed to the run loop
Evaluating == lineNo >= 1 /\ pc \in {"walk", "next", "done", "error"}

\* the walk for the current date has run to its end
WalkOver == lineNo >= 1 /\ pc \in {"next", "done"}

\* C1: for every registry and date, the walk calls no rule positioned after
\* the first enabled rule whose predicate is true, prints for no other rule,
\* and a walk that has run to its end stopped at that rule with exactly that
\* rule's message as the date's output.
C1_FirstMatchWins ==
    LET f == FirstMatch(Instances, line) IN
    /\ (Evaluating /\ f # 0) =>
          \A k \in 1..Len(calls) :
              /\ calls[k].idx <= f
              /\ calls[k].printed > 0 => calls[k].idx = f
    /\ (WalkOver /\ f # 0) =>
          /\ Len(calls) = f
          /\ calls[f].idx = f /\ calls[f].ret
          /\ OutFor(lineNo) = <<Render(Instances[f].message, line).text>>

\* a walk over, stopped at a rule that a later enabled rule also matches
C1_Witness ==
    LET f == FirstMatch(Instances, line) IN
    /\ pc = "done" /\ lineNo >= 1 /\ f # 0
    /\ nExtra > 0
    /\ \E j \in (f + 1)..Len(Instances) :
          Instances[j].enabled /\ Check(Instances[j].check, line) = Ok(TRUE)
    /\ Len(out) = 1

RECURSIVE FirstOrder(_)
\* the names of a registration history, in the order of their first
\* registration
FirstOrder(log) ==
    IF Len(log) = 0 THEN <<>>
    ELSE LET before == FirstOrder(SubSeq(log, 1, Len(log) - 1))
             n      == log[Len(log)].name
         IN IF n \in Range(before) THEN before ELSE Append(before, n)

\* the object most recently registered under a name
LatestId(log, n) == Max({log[k].id : k \in {j \in 1..Len(log) : log[j].name = n}})

\* C2: the order of TimeMap.Instances is the order in which each distinct
\* name was first registered, and the entry at a name's position is the rule
\* most recently registered under that name.
C2_FirstRegistrationOrder ==
    LET order == FirstOrder(registered) IN
    /\ Len(Instances) = Len(order)
    /\ \A i \in 1..Len(order) :
          /\ Instances[i].name = order[i]
          /\ Instances[i].id = LatestId(registered, order[i])

\* a catalogue name registered again: the new object sits at the name's old
\* index, before other rules, and the list is no longer than the catalogue
C2_Witness ==
    \E k \in 1..Len(Catalogue) : \E j \in (Len(Catalogue) + 1)..Len(registered) :
        /\ registered[j].name = registered[k].name
        /\ Len(Instances) = Len(Catalogue)
        /\ k < Len(Instances)
        /\ Instances[k].id = registered[j].id

\* C3: TimeMap.Instances never holds two rules of the same name.
C3_OneRulePerName ==
    \A i, j \in 1..Len(Instances) :
        i # j => Instances[i].name # Instances[j].name

\* two registrations under one new name, after the catalogue
C3_Witness ==
    /\ Len(registered) = Len(Catalogue) + 2
    /\ Len(Instances) = Len(Catalogue) + 1
    /\ pc = "args"

\* C4: a call of a disabled rule does not invoke its check, prints nothing
\* and returns False, and the walk goes on to the next rule of the list.
C4_DisabledRuleInert ==
    \A k \in 1..Len(calls) :
        LET i == calls[k].idx IN
        ~Instances[i].enabled =>
            /\ ~calls[k].checked
            /\ calls[k].printed = 0
            /\ ~calls[k].ret
            /\ k < Len(calls) => calls[k + 1].idx = i + 1
            /\ k = Len(calls) =>
                  IF i < Len(Instances) THEN pc = "walk" /\ idx = i + 1
                  ELSE pc \in {"next", "done"}

\* a disabled rule whose predicate is true of the date was called and the
\* walk went on to the rule after it
C4_Witness ==
    \E k \in 1..Len(calls) :
        /\ ~Instances[calls[k].idx].enabled
        /\ Check(Instances[calls[k].idx].check, line) = Ok(TRUE)
        /\ k < Len(calls)

\* the value the last occurrence of a flag carries on the command line
LastValue(av, n) == av[Max({k \in 1..Len(av) : av[k].flag = n})].value

\* the message the catalogue gives the rule of a name
DefaultMessage(n) ==
    Catalogue[CHOOSE i \in 1..Len(Catalogue) : Catalogue[i].name = n].message

\* C5: once the arguments are processed, every catalogue rule whose flag --n
\* is on the command line is enabled, with the flag's value as its message
\* when it carried one and its default message when it carried none.
C5_FlagEnablesItsRule ==
    pc = "run" =>
        \A k \in 1..Len(argv) :
            LET n == argv[k].flag
                i == SlotOf(Instances, n)
                v == LastValue(argv, n)
            IN /\ i # 0
               /\ Instances[i].enabled
               /\ Instances[i].message =
                      IF v # None THEN v ELSE DefaultMessage(n)

\* no enabled rule's predicate is true of t, and none raises
NoMatch(insts, t) ==
    \A i \in 1..Len(insts) :
        insts[i].enabled => Check(insts[i].check, t) = Ok(FALSE)

\* C6: a date that no enabled rule matches prints nothing and does not end
\* the run (the run ends only with the input, or on a later line that does
\* not parse); the output holds at most one line per date, in the order the
\* dates were consumed.
C6_SilentSkipInOrder ==
    /\ \A i, j \in 1..Len(out) : i < j => out[i].src < out[j].src
    /\ \A i \in 1..Len(out) : out[i].src \in 1..lineNo
    /\ (Evaluating /\ NoMatch(Instances, line)) =>
          /\ OutFor(lineNo) = <<>>
          /\ pc = "error" => exc = "ValueError"
          /\ pc # "walk" => Len(calls) = Len(Instances)
          /\ pc = "done" => lineNo >= Len(stdin)

\* two piped dates: the first matched no rule and printed nothing, the run
\* went on and the second printed its line
C6_Witness ==
    /\ pc = "done"
    /\ Len(stdin) = 2 /\ lineNo = 2
    /\ NoMatch(Instances, strptime(stdin[1]))
    /\ Len(out) = 1 /\ out[1].src = 2

\* a Friday in June whose date + 7 days falls in July
JuneFridayBeforeJuly(t) ==
    Weekday(t) = 4 /\ Month(t) = 6 /\ Month(t + 7) = 7

\* C7: with the legacy rules enabled and no flags, a Friday in June whose
\* date + 7 days is in July prints the single line "End of Financial Year".
C7_EndOfFinancialYear ==
    (Evaluating /\ argv = <<>> /\ JuneFridayBeforeJuly(line)) =>
        /\ pc # "error"
        /\ pc # "walk" =>
              out = << [src |-> lineNo, text |-> <<"End of Financial Year">>] >>

\* Friday 30 Jun 2023 was piped in and the line was printed
C7_Witness ==
    /\ pc = "done"
    /\ stdin = <<DateLine(2023, 6, 30)>>
    /\ Weekday(line) = 4
    /\ out = << [src |-> 1, text |-> <<"End of Financial Year">>] >>

EnglishDay == <<"Monday", "Tuesday", "Wednesday", "Thursday">>

\* C8: with the legacy rules enabled and no flags, a Monday to Thursday
\* prints exactly one line, its weekday's full name, from the workday rule.
C8_OrdinaryWorkday ==
    (Evaluating /\ argv = <<>> /\ Weekday(line) \in 0..3) =>
        /\ pc # "error"
        /\ pc # "walk" =>
              /\ out = << [src |-> lineNo,
                           text |-> <<EnglishDay[Weekday(line) + 1]>>] >>
              /\ Instances[calls[Len(calls)].idx].name = <<"workday">>
              /\ calls[Len(calls)].ret

\* Wednesday 15 Mar 2023 was piped in and "Wednesday" was printed
C8_Witness ==
    /\ pc = "done"
    /\ stdin = <<DateLine(2023, 3, 15)>>
    /\ out = << [src |-> 1, text |-> <<"Wednesday">>] >>

\* which occurrence of its weekday in its month a date is
OrdinalInMonth(t) == ((Day(t) - 1) \div 7) + 1

\* C9: a matched rule whose message is a string containing %J prints the
\* message with every %J replaced by the count of w in 0..4 for which
\* date - w weeks is in the date's month, and then date-formatted; that
\* count is the ordinal of the date's weekday within its month.  (The call
\* raises instead for the 28 days from which four weeks cannot be
\* subtracted.)
C9_WeekOfMonthToken ==
    LET m == Instances[1].message IN
    (pc # "walk" /\ m.kind = "str" /\ Contains(m.val, <<"%", "J">>)) =>
        IF InRange(line - 28)
        THEN /\ pc # "error"
             /\ Cardinality({w \in 0..4 : Month(line - 7 * w) = Month(line)})
                   = OrdinalInMonth(line)
             /\ OutFor(lineNo) =
                   << strftime(line, Replace(m.val, <<"%", "J">>,
                                             Str(OrdinalInMonth(line)))) >>
        ELSE pc = "error" /\ exc = "OverflowError" /\ out = <<>>

\* a fifth Friday rendered with '%A %J'
C9_Witness ==
    /\ pc = "done"
    /\ Weekday(line) = 4 /\ Day(line) >= 29
    /\ Instances[1].message = StrMsg(<<"%", "A", " ", "%", "J">>)
    /\ out = << [src |-> 1, text |-> <<"Friday", " ", "5">>] >>

\* the run ended on an input line that does not parse
ParseFailed == pc = "error" /\ exc = "ValueError"

\* C10 as stated: when a line fails to parse, no output line has been
\* emitted for any date of the run.
C10_NoPartialOutput == ParseFailed => out = <<>>

\* C10 as amended: when a line fails to parse the run ends at that line, the
\* first that does not parse; nothing is printed for it or for any line after
\* it, and every line before it has been evaluated and has its output.
C10_OutputUpToFailingLine ==
    ParseFailed =>
        /\ lineNo < Len(stdin)
        /\ strptime(stdin[lineNo + 1]) = 0
        /\ \A k \in 1..lineNo : strptime(stdin[k]) # 0
        /\ \A i \in 1..Len(out) : out[i].src <= lineNo
        /\ \A k \in 1..lineNo :
              OutFor(k) # <<>> <=>
                  FirstMatch(Instances, strptime(stdin[k])) # 0

\* the second line failed to parse after the first had printed its line
C10_Witness ==
    /\ ParseFailed
    /\ lineNo = 1
    /\ Len(out) = 1 /\ out[1].src = 1

\* a flag of the command line is recognized by no option, or by several
UnknownFlag == \E k \in 1..Len(argv) : Unrecognized(Instances, argv[k].flag)

\* C11: a run whose command line holds a flag that parse_args does not
\* recognize ends with the usage error (exit status 2) before the reader is
\* started: no line of input is read, no date is evaluated, no rule is
\* called and nothing is printed.
C11_UnknownFlagEndsRun ==
    UnknownFlag =>
        /\ pc = "error" /\ exc = "SystemExit"
        /\ stdin = <<>> /\ lineNo = 0 /\ line = 0
        /\ calls = <<>> /\ out = <<>>

\* the run ended on a command line whose last flag is --bogus
C11_Witness ==
    /\ pc = "error" /\ exc = "SystemExit"
    /\ Len(argv) >= 1 /\ argv[Len(argv)].flag = <<"bogus">>
    /\ out = <<>>

\* the enabled argument the object of an identity was constructed with
CreatedEnabled(id) ==
    registered[CHOOSE k \in 1..Len(registered) : registered[k].id = id].enabled

\* the legacy block of __main__ has run
MainStarted ==
    pc \in {"args", "run", "next", "walk", "done"}
        \/ (pc = "error" /\ exc # "AssertionError")

\* a flag of the command line stands for the option --n
FlagGiven(n) == \E k \in 1..Len(argv) : Matches(Instances, argv[k].flag) = {n}

\* C12: until __main__ starts, every rule's enabled flag is the argument its
\* constructor was given (False when omitted, as in every line of the
\* catalogue); from then on the five legacy rules are enabled, every other
\* rule whose flag is absent still has its constructor's value, so that
\* without flags the catalogue rules enabled are exactly the legacy five,
\* and a disabled rule prints nothing.
C12_DisabledUnlessEnabled ==
    /\ ~MainStarted =>
          \A i \in 1..Len(Instances) :
              Instances[i].enabled = CreatedEnabled(Instances[i].id)
    /\ MainStarted =>
          \A i \in 1..Len(Instances) :
              LET r == Instances[i] IN
              /\ r.name \in Range(Legacy) => r.enabled
              /\ (r.name \notin Range(Legacy) /\ ~FlagGiven(r.name)) =>
                    r.enabled = CreatedEnabled(r.id)
              /\ (r.name \notin Range(Legacy) /\ r.id <= Len(Catalogue)
                    /\ ~FlagGiven(r.name)) => ~r.enabled
              /\ ~r.enabled =>
                    \A k \in 1..Len(calls) :
                        calls[k].idx = i =>
                            calls[k].printed = 0 /\ ~calls[k].ret

\* the unmodified catalogue run without flags on a Saturday: the five legacy
\* rules are the enabled ones, all fourteen rules were called, last-day-of-
\* week and day among them, and nothing was printed
C12_Witness ==
    /\ pc = "done" /\ argv = <<>> /\ nExtra = 0
    /\ Weekday(line) = 5
    /\ {Instances[i].name : i \in {j \in 1..Len(Instances) :
                                       Instances[j].enabled}} = Range(Legacy)
    /\ Len(calls) = Len(Catalogue)
    /\ out = <<>>

\* the number of w in 0..4 for which t - w weeks lies in t's month
SameMonthWeeks(t) == Cardinality({w \in 0..4 : Month(t - 7 * w) = Month(t)})

\* C13: the line printed for a matched rule is decided by the kind of its
\* message: what a callable returns for the date, as it stands, with its %J
\* and % conversions untouched; a str with each %J replaced by the week
\* count and the result date-formatted; any other object's str(), as it
\* stands.  Only the %J of a str message can make the call raise.
C13_RenderingByMessageKind ==
    LET m == Instances[1].message IN
    pc # "walk" =>
        CASE m.kind = "callable" ->
                /\ pc # "error"
                /\ OutFor(lineNo) = <<CallMessage(m.val[1], line)>>
          [] m.kind = "other" ->
                /\ pc # "error"
                /\ OutFor(lineNo) = <<m.val>>
          [] m.kind = "str" ->
                IF pc = "error"
                THEN /\ Contains(m.val, <<"%", "J">>)
                     /\ ~InRange(line - 28)
                     /\ out = <<>>
                ELSE OutFor(lineNo) =
                        << strftime(line,
                               Replace(m.val, <<"%", "J">>,
                                       Str(SameMonthWeeks(line)))) >>

\* a callable message that returns the text '%A %J' was printed as it stands
C13_Witness ==
    /\ pc = "done"
    /\ Instances[1].message.kind = "callable"
    /\ calls = << [idx |-> 1, checked |-> TRUE, printed |-> 1, ret |-> TRUE] >>
    /\ out = << [src |-> 1, text |-> <<"%", "A", " ", "%", "J">>] >>

\* the day of an ordinal is a Friday: ordinal 1, 1 January of year 1, is a
\* Monday
Friday(t) == t % 7 = 5

\* a later day of t's month is a Friday
LaterFridayInMonth(t) ==
    \E d \in 1..30 :
        Friday(t + d) /\ Month(t + d) = Month(t) /\ Year(t + d) = Year(t)

\* C14: the last-workday-of-month predicate is true of a date exactly when
\* it is a Friday and date + 7 days is in another month, which is exactly
\* when it is a Friday with no later Friday in its month; it is false of
\* every other Friday and of every other day of the week.  (On the one
\* Friday whose date + 7 days is past date.max the predicate raises.)
C14_LastWorkdayOfMonth ==
    (pc # "walk" /\ Instances[1].check = "last-workday-of-month") =>
        IF Friday(line) /\ ~InRange(line + 7)
        THEN pc = "error" /\ exc = "OverflowError"
        ELSE /\ pc # "error"
             /\ calls[1].checked
             /\ calls[1].ret <=> (Friday(line) /\ Month(line + 7) # Month(line))
             /\ calls[1].ret <=> (Friday(line) /\ ~LaterFridayInMonth(line))

\* the rule was called on Friday 31 Mar 2023, the last Friday of a month
\* that ends neither the year nor the financial year, and matched
C14_Witness ==
    /\ pc = "done"
    /\ Instances[1].check = "last-workday-of-month"
    /\ line = Ymd2Ord(2023, 3, 31)
    /\ calls[1].ret
    /\ out = << [src |-> 1, text |-> <<"Friday">>] >>

\* where the walk over a registry stops for t (0: at the end of the list)
\* and the exception that stops it there
Reported(insts, t) ==
    LET stops == {i \in 1..Len(insts) :
                     insts[i].enabled /\ Check(insts[i].check, t) # Ok(FALSE)}
    IN IF stops = {} THEN [idx |-> 0, exc |-> ""]
       ELSE [idx |-> Min(stops), exc |-> Check(insts[Min(stops)].check, t).exc]

LDOFY == Hy(<<"last", "day", "of", "financial", "year">>)

\* C15: the last-day-of-financial-year predicate is false of every date, 30
\* June included: the enabled rule is called, its check is evaluated without
\* an exception, nothing is printed and the walk goes on; and enabling the
\* rule, next to no other rule, to the legacy rules or to all rules, leaves
\* the rule the walk stops at what it is without it.
C15_LastDayOfFinancialYearNeverTrue ==
    (pc # "walk" /\ Instances[1].check = "last-day-of-financial-year") =>
        /\ pc # "error"
        /\ calls = << [idx |-> 1, checked |-> TRUE, printed |-> 0,
                       ret |-> FALSE] >>
        /\ out = <<>>
        /\ \A E \in {{}, Range(Legacy), CatalogueNames} :
              Reported(Registry(E \cup {LDOFY}), line)
                  = Reported(Registry(E \ {LDOFY}), line)

\* the enabled rule was called on 30 Jun 2023 and did not match
C15_Witness ==
    /\ pc = "done"
    /\ Instances[1].check = "last-day-of-financial-year"
    /\ Instances[1].enabled
    /\ line = Ymd2Ord(2023, 6, 30)
    /\ Len(calls) = 1 /\ calls[1].checked /\ ~calls[1].ret
    /\ out = <<>>

\* the date of the k-th line consumed (on a terminal, the one date yielded)
DateOf(k) == IF stdin = <<>> THEN line ELSE strptime(stdin[k])

\* what a run that evaluates t alone prints for it
Alone(insts, t) ==
    LET f == FirstMatch(insts, t)
    IN IF f = 0 THEN <<>> ELSE <<Render(insts[f].message, t).text>>

\* a step of the reader or of the walk leaves TimeMap.Instances as it is
RegistryKept == (pc \in {"run", "next", "walk"}) => UNCHANGED Instances

\* C16: no step of the reader or of the walk changes TimeMap.Instances (its
\* order, or any rule's name, message, check or enabled flag), and the
\* output of each date whose walk is over is what a run evaluating that
\* date alone prints, whatever dates were evaluated before it.
C16_EvaluationLeavesRegistry ==
    /\ [][RegistryKept]_vars
    /\ [](\A k \in 1..lineNo :
              (k < lineNo \/ WalkOver) =>
                  OutFor(k) = Alone(Instances, DateOf(k)))

\* Wednesday 15 Mar 2023 printed its line after a different date had
\* matched another rule and printed its own
C16_Witness ==
    /\ pc = "done"
    /\ stdin = <<DateLine(2023, 6, 30), DateLine(2023, 3, 15)>>
    /\ Len(out) = 2
    /\ out[1].text # out[2].text
    /\ out[2] = [src |-> 2, text |-> <<"Wednesday">>]

\* a TimeMap(...) call is made by this step
Registering == pc = "import" /\ nextId' = nextId + 1

\* C17: a TimeMap(...) call raises exactly when its check is not callable;
\* the call that raises leaves TimeMap.Instances with the same objects in
\* the same order, whether or not a rule of that name is held, and the call
\* that does not raise leaves the new object, with its callable check, in
\* the list.  No rule of the list ever has a check that is not callable.
C17_FailedRegistrationLeavesRegistry ==
    /\ [](\A i \in 1..Len(Instances) : Callable(Instances[i].check))
    /\ []((pc = "error" /\ exc = "AssertionError") <=> failed # <<>>)
    /\ [](failed # <<>> => ~Callable(failed[1].check))
    /\ [][Registering =>
            IF failed' # <<>>
            THEN Instances' = Instances
            ELSE /\ pc' = "import" /\ exc' = ""
                 /\ \E i \in 1..Len(Instances') :
                       /\ Instances'[i].id = nextId
                       /\ Callable(Instances'[i].check)]_vars

\* TimeMap('workday', ..., None) raised: the catalogue's workday rule is
\* still the fifth of fourteen
C17_Witness ==
    /\ pc = "error" /\ exc = "AssertionError"
    /\ failed # <<>> /\ failed[1].name = <<"workday">>
    /\ Len(Instances) = Len(Catalogue)
    /\ Instances[5].name = <<"workday">> /\ Instances[5].id = 5
    /\ Instances[5].check = "workday"

\* C18: for every date handed to the run loop, every catalogue predicate and
\* the %J week count yield a value, and the run does not end with an
\* arithmetic out-of-range error.
C18_TotalOverEveryDate ==
    Evaluating =>
        /\ \A c \in CatalogueChecks : Check(c, line).exc = ""
        /\ ~WeekCountRaises(line)
        /\ exc # "OverflowError"

\* every entry of the list stays at its index, as the same object or
\* replaced by the object this step constructs under the same name
EntriesKept ==
    /\ Len(Instances') >= Len(Instances)
    /\ \A i \in 1..Len(Instances) :
          /\ Instances'[i].name = Instances[i].name
          /\ \/ Instances'[i].id = Instances[i].id
             \/ Registering /\ Instances'[i].id = nextId
    /\ Cardinality({i \in 1..Len(Instances) :
                       Instances'[i].id # Instances[i].id}) <= 1

\* C19: no step (a registration, a re-registration and the destructor of
\* the object it displaces, a registration that raises, the legacy block,
\* argument processing, an evaluation) shortens TimeMap.Instances or moves
\* or removes an entry: the only entry that can change is the one a
\* re-registration replaces, by the new object of its name.
C19_NoRuleRemoved == [][EntriesKept]_vars

\* workday was registered again, displacing the catalogue's object, and a
\* date was evaluated: fourteen entries, the new object the fifth
C19_Witness ==
    /\ pc = "done"
    /\ Len(registered) > Len(Catalogue)
    /\ Len(Instances) = Len(Catalogue)
    /\ Instances[5].name = <<"workday">>
    /\ Instances[5].id > Len(Catalogue)
    /\ \A i \in 1..Len(Instances) : i # 5 => Instances[i].id = i

\* the rule of a name is enabled
Enabled(n) == Instances[SlotOf(Instances, n)].enabled

\* the rule of a name is the reported match of the walk
ReportedMatch(n) ==
    \E k \in 1..Len(calls) :
        /\ Instances[calls[k].idx].name = n
        /\ calls[k].ret \/ calls[k].printed > 0

\* C20: in the catalogue order, with last-day-of-month enabled the
\* last-day-of-year rule is never the reported match, and with
\* first-day-of-month enabled neither first-day-of-year nor
\* first-day-of-financial-year is; on 1 January the walk then stops at
\* first-day-of-month or at an earlier rule, whose message is the output.
\* The later predicate implies the earlier one.
C20_ShadowedDayRules ==
    /\ Enabled(LDOM) => ~ReportedMatch(LDOY)
    /\ Enabled(FDOM) => ~ReportedMatch(FDOY) /\ ~ReportedMatch(FDOFY)
    /\ (Enabled(FDOM) /\ WalkOver /\ Day(line) = 1 /\ Month(line) = 1) =>
          /\ Len(calls) <= SlotOf(Instances, FDOM)
          /\ calls[Len(calls)].ret
          /\ OutFor(lineNo) =
                << Render(Instances[Len(calls)].message, line).text >>
    /\ Check("last-day-of-year", line) = Ok(TRUE) =>
          Check("last-day-of-month", line) = Ok(TRUE)
    /\ (Check("first-day-of-year", line) = Ok(TRUE)
          \/ Check("first-day-of-financial-year", line) = Ok(TRUE)) =>
          Check("first-day-of-month", line) = Ok(TRUE)

\* Sunday 1 Jan 2023 with the legacy rules, first-day-of-month and
\* first-day-of-year enabled: 'First Day of Month' is the output
C20_Witness ==
    /\ pc = "done"
    /\ line = Ymd2Ord(2023, 1, 1)
    /\ Enabled(FDOM) /\ Enabled(FDOY) /\ Enabled(<<"workday">>)
    /\ out = << [src |-> 1, text |-> <<"First Day of Month">>] >>

=============================================================================
